---- MODULE Spec2Model ----
(***************************************************************************)
(* The x402 payment gate of the Lucid Sandbox Agent.                       *)
(*                                                                         *)
(* Modelled: the Express middlewares requirePayment and optionalPayment    *)
(* (src/src/middleware/x402.ts) and the X402PaymentManager they call       *)
(* (src/src/lib/x402-payments.ts): parsePaymentHeader, verifyPayment and   *)
(* verifyWithFacilitator.  Several requests are in flight at once; the     *)
(* JavaScript run-to-completion rule makes every stretch of code between   *)
(* two awaits one atomic step.                                             *)
(*                                                                         *)
(* Strings whose characters matter (addresses, numeric strings, nonces)    *)
(* are sequences of one-character strings.                                 *)
(***************************************************************************)
EXTENDS Integers, Sequences, FiniteSets, TLC

\* ------------------------------------------------------------------ bounds

\* The clock (Unix seconds, scaled down) runs over 0..MaxNow.
MaxNow == 2

\* The requests: two, which may be in flight together or follow each other.
Reqs == {1, 2}

\* ------------------------------------------------------ JavaScript values

\* A JSON value of a header field: a string, a number, or undefined (absent).
Str(s) == [t |-> "str", s |-> s, n |-> 0]
Num(n) == [t |-> "num", s |-> <<>>, n |-> n]
Undef == [t |-> "undef", s |-> <<>>, n |-> 0]

\* JavaScript truthiness, as used by `!payload.x`.
Truthy(v) ==
  CASE v.t = "str" -> v.s # <<>>
    [] v.t = "num" -> v.n # 0
    [] OTHER -> FALSE

\* The result of a numeric conversion: a number or NaN.
NaN == [nan |-> TRUE, n |-> 0]
Number(n) == [nan |-> FALSE, n |-> n]

\* a < b and a > b on numbers: every comparison with NaN is false.
JsLess(a, b) == ~a.nan /\ ~b.nan /\ a.n < b.n
JsGreater(a, b) == JsLess(b, a)

Digits == {"0", "1", "2", "3", "4", "5", "6", "7", "8", "9"}

DigitVal(c) ==
  CASE c = "0" -> 0 [] c = "1" -> 1 [] c = "2" -> 2 [] c = "3" -> 3
    [] c = "4" -> 4 [] c = "5" -> 5 [] c = "6" -> 6 [] c = "7" -> 7
    [] c = "8" -> 8 [] c = "9" -> 9 [] OTHER -> 0

HexDigits == Digits \cup {"a", "b", "c", "d", "e", "f", "A", "B", "C", "D", "E", "F"}

HexDigitVal(c) ==
  CASE c \in {"a", "A"} -> 10 [] c \in {"b", "B"} -> 11 [] c \in {"c", "C"} -> 12
    [] c \in {"d", "D"} -> 13 [] c \in {"e", "E"} -> 14 [] c \in {"f", "F"} -> 15
    [] OTHER -> DigitVal(c)

\* The first position from i on where s holds no white space.
RECURSIVE SkipSpaces(_, _)
SkipSpaces(s, i) ==
  IF i <= Len(s) /\ s[i] = " " THEN SkipSpaces(s, i + 1) ELSE i

\* The first position from i on where s holds no character of set.
RECURSIVE RunEnd(_, _, _)
RunEnd(s, i, set) ==
  IF i <= Len(s) /\ s[i] \in set THEN RunEnd(s, i + 1, set) ELSE i

\* The number written by the digits s[i..j-1] in the radix, after acc.
RECURSIVE DigitsValue(_, _, _, _, _)
DigitsValue(s, i, j, radix, acc) ==
  IF i >= j THEN acc
  ELSE DigitsValue(s, i + 1, j, radix, radix * acc + HexDigitVal(s[i]))

\* parseInt(string) without a radix: leading white space and a sign are
\* accepted; a "0x" prefix selects radix 16, otherwise radix 10; the longest
\* run of digits of the radix is read and the rest ignored; no digit at all
\* gives NaN.
ParseIntStr(s) ==
  LET a == SkipSpaces(s, 1)
      signed == a <= Len(s) /\ s[a] \in {"-", "+"}
      neg == signed /\ s[a] = "-"
      b == IF signed THEN a + 1 ELSE a
      hex == b + 1 <= Len(s) /\ s[b] = "0" /\ s[b + 1] \in {"x", "X"}
      c == IF hex THEN b + 2 ELSE b
      e == RunEnd(s, c, IF hex THEN HexDigits ELSE Digits)
      mag == DigitsValue(s, c, e, IF hex THEN 16 ELSE 10, 0)
  IN  IF e = c THEN NaN
      ELSE Number(IF neg THEN 0 - mag ELSE mag)

\* parseInt(value): a number is first converted to its decimal string, which
\* for an integer reads back as the same integer.
ParseInt(v) ==
  CASE v.t = "str" -> ParseIntStr(v.s)
    [] v.t = "num" -> Number(v.n)
    [] OTHER -> NaN

LowerChar(c) ==
  CASE c = "A" -> "a" [] c = "B" -> "b" [] c = "C" -> "c"
    [] c = "D" -> "d" [] c = "E" -> "e" [] c = "F" -> "f"
    [] c = "X" -> "x" [] OTHER -> c

\* String.prototype.toLowerCase
ToLowerCase(s) == [i \in 1..Len(s) |-> LowerChar(s[i])]

\* String.prototype.padEnd(n, c)
PadEnd(s, n, c) ==
  IF Len(s) >= n THEN s ELSE s \o [i \in 1..(n - Len(s)) |-> c]

\* ------------------------------------------------------------ configuration

\* CONFIG.wallets.base: the receiving address (mixed case, scaled down).
WalletBase == <<"0", "x", "A", "b">>

\* CONFIG.network.name: the configured name of the network, one string fixed
\* by the deployment.
NetworkName == "CONFIG.network.name"

\* CONFIG.server.nodeEnv
NodeEnvs == {"development", "production"}

\* The only scheme verifyPayment accepts.
SchemeEip3009 == <<"e", "i", "p", "3", "0", "0", "9">>

\* Factor of the decimal amount to the smallest unit (six decimals).
SmallestUnitScale == 1000000

\* Length to which the nonce is padded in a simulated transaction hash.
HashPadLength == 64

\* A decimal amount a is held as the integer a * AmountDenominator, which
\* allows seven decimal places.
AmountDenominator == 10 * SmallestUnitScale

\* amount * 1_000_000 is then the held integer over SubUnit.
SubUnit == AmountDenominator \div SmallestUnitScale

\* Math.floor(amount * 1_000_000)
FloorSmallestUnit(amount) == amount \div SubUnit

\* ----------------------------------------------------- payment authorization

Fields ==
  {"scheme", "signature", "from", "to", "value", "validAfter", "validBefore", "nonce"}

\* The object JSON.parse gives for a header that holds no JSON object field.
EmptyObject == [f \in Fields |-> Undef]

\* VerificationResponse.error: absent, or a message; the amounts of the
\* "Insufficient payment" message are kept beside its text.
NoError == [defined |-> FALSE, text |-> "", paid |-> Number(0), required |-> 0]
Error(text) == [defined |-> TRUE, text |-> text, paid |-> Number(0), required |-> 0]
InsufficientError(paid, required) ==
  [defined |-> TRUE, text |-> "Insufficient payment", paid |-> paid, required |-> required]

\* VerificationResponse
Invalid(err) == [valid |-> FALSE, transactionHash |-> Undef, error |-> err]
Valid(hash) == [valid |-> TRUE, transactionHash |-> hash, error |-> NoError]

\* The null parsePaymentHeader returns: no payload; the payload field of the
\* record is then a placeholder nothing reads.
Null == [ok |-> FALSE, payload |-> EmptyObject]

\* ParsePaymentHeader with the presence check of the last field, nonce,
\* forgotten: an object without a nonce is returned as it is.
ParsePaymentHeaderSevenFields(header) ==
  IF header.kind # "json" THEN Null
  ELSE IF \E f \in Fields \ {"nonce"} : ~Truthy(header.obj[f]) THEN Null
  ELSE [ok |-> TRUE, payload |-> header.obj]

\* parsePaymentHeader: null for an absent or empty header, for a header that
\* is not JSON or not a JSON object, and for an object one of whose eight
\* fields is falsy (missing, "", 0); otherwise the object itself.
ParsePaymentHeader(header) ==
  IF header.kind # "json" THEN Null
  ELSE IF \E f \in Fields : ~Truthy(header.obj[f]) THEN Null
  ELSE [ok |-> TRUE, payload |-> header.obj]

\* !paymentHeader in the middlewares: undefined or "".
HeaderMissing(header) == header.kind \in {"absent", "empty"}

\* The four local checks of verifyPayment, each as the code evaluates it.
SchemeOk(p) == p.scheme = Str(SchemeEip3009)

RecipientThrows(p) == p.to.t # "str"

\* RecipientOk with the two addresses compared as they are written.
RecipientOkExactCase(p) ==
  /\ ~RecipientThrows(p)
  /\ p.to.s = WalletBase

RecipientOk(p) ==
  /\ ~RecipientThrows(p)
  /\ ToLowerCase(p.to.s) = ToLowerCase(WalletBase)

\* AmountOk with the comparison written <=: a value equal to the required
\* amount is turned down.
AmountOkStrict(p, requiredAmount) ==
  JsGreater(ParseInt(p.value), Number(FloorSmallestUnit(requiredAmount)))

AmountOk(p, requiredAmount) ==
  ~JsLess(ParseInt(p.value), Number(FloorSmallestUnit(requiredAmount)))

\* WindowOk with the upper bound exclusive: now equal to validBefore is
\* turned down.
WindowOkExclusiveEnd(p, t) ==
  ~(JsLess(Number(t), ParseInt(p.validAfter)) \/ ~JsLess(Number(t), ParseInt(p.validBefore)))

WindowOk(p, t) ==
  ~(JsLess(Number(t), ParseInt(p.validAfter)) \/ JsGreater(Number(t), ParseInt(p.validBefore)))

\* VerifyPaymentLocal with the facilitator called before the time window is
\* looked at.
VerifyPaymentLocalNoWindow(p, requiredAmount, t) ==
  IF ~SchemeOk(p)
    THEN [call |-> FALSE, result |-> Invalid(Error("Unsupported payment scheme"))]
  ELSE IF RecipientThrows(p)
    THEN [call |-> FALSE,
          result |-> Invalid(Error("payload.to.toLowerCase is not a function"))]
  ELSE IF ~RecipientOk(p)
    THEN [call |-> FALSE, result |-> Invalid(Error("Invalid recipient address"))]
  ELSE IF ~AmountOk(p, requiredAmount)
    THEN [call |-> FALSE,
          result |-> Invalid(InsufficientError(ParseInt(p.value),
                                               FloorSmallestUnit(requiredAmount)))]
  ELSE [call |-> TRUE, result |-> Invalid(NoError)]

\* VerifyPaymentLocal with the amount compared before the recipient is
\* looked at.
VerifyPaymentLocalAmountFirst(p, requiredAmount, t) ==
  IF ~SchemeOk(p)
    THEN [call |-> FALSE, result |-> Invalid(Error("Unsupported payment scheme"))]
  ELSE IF ~AmountOk(p, requiredAmount)
    THEN [call |-> FALSE,
          result |-> Invalid(InsufficientError(ParseInt(p.value),
                                               FloorSmallestUnit(requiredAmount)))]
  ELSE IF RecipientThrows(p)
    THEN [call |-> FALSE,
          result |-> Invalid(Error("payload.to.toLowerCase is not a function"))]
  ELSE IF ~RecipientOk(p)
    THEN [call |-> FALSE, result |-> Invalid(Error("Invalid recipient address"))]
  ELSE IF ~WindowOk(p, t)
    THEN [call |-> FALSE, result |-> Invalid(Error("Payment authorization expired"))]
  ELSE [call |-> TRUE, result |-> Invalid(NoError)]

\* verifyPayment up to the facilitator call: the result of the first failing
\* check (a TypeError raised by the recipient check is caught by the method's
\* catch and becomes a result too), or the order to call the facilitator.
VerifyPaymentLocal(p, requiredAmount, t) ==
  IF ~SchemeOk(p)
    THEN [call |-> FALSE, result |-> Invalid(Error("Unsupported payment scheme"))]
  ELSE IF RecipientThrows(p)
    THEN [call |-> FALSE,
          result |-> Invalid(Error("payload.to.toLowerCase is not a function"))]
  ELSE IF ~RecipientOk(p)
    THEN [call |-> FALSE, result |-> Invalid(Error("Invalid recipient address"))]
  ELSE IF ~AmountOk(p, requiredAmount)
    THEN [call |-> FALSE,
          result |-> Invalid(InsufficientError(ParseInt(p.value),
                                               FloorSmallestUnit(requiredAmount)))]
  ELSE IF ~WindowOk(p, t)
    THEN [call |-> FALSE, result |-> Invalid(Error("Payment authorization expired"))]
  ELSE [call |-> TRUE, result |-> Invalid(NoError)]

\* ------------------------------------------------------------- facilitator

\* What the fetch of {facilitatorUrl}/verify comes to: the promise rejects
\* (kind "neterr": unreachable, connection reset, transport timeout), or a
\* response arrives with a success status (kind "ok") or another status (kind
\* "notok"); its body parses as JSON or not, and holds transactionHash and
\* error fields or not (error "" stands for no error field).
Response(kind, parsable, hash, err) ==
  [kind |-> kind, parsable |-> parsable, transactionHash |-> hash, error |-> err]

NoResponse == Response("none", FALSE, Undef, "")

HashAbc == <<"0", "x", "a", "b", "c">>

FacilitatorResponses ==
  { Response("ok", TRUE, Str(HashAbc), ""),
    Response("ok", TRUE, Str(HashAbc), "settlement pending"),
    Response("notok", TRUE, Str(HashAbc), "nonce already used"),
    Response("ok", TRUE, Undef, ""),
    Response("ok", FALSE, Undef, ""),
    Response("notok", TRUE, Undef, "signature invalid"),
    Response("notok", TRUE, Undef, ""),
    Response("notok", FALSE, Undef, ""),
    Response("neterr", FALSE, Undef, "") }

\* The fetch or the body's JSON parse of a success response threw: control is
\* in the catch block of verifyWithFacilitator.
FacilitatorCallFailed(resp) ==
  resp.kind = "neterr" \/ (resp.kind = "ok" /\ ~resp.parsable)

\* FacilitatorFallback with the simulated success given in every deployment
\* mode.
FacilitatorFallbackAnyMode(p, nodeEnv) ==
  IF p.nonce.t = "str"
    THEN Valid(Str(<<"0", "x">> \o PadEnd(p.nonce.s, HashPadLength, "0")))
    ELSE Invalid(Error("payload.nonce.padEnd is not a function"))

\* FacilitatorFallback with the error of a facilitator rejection returned for
\* a call that failed.
FacilitatorFallbackAsRejection(p, nodeEnv) ==
  IF nodeEnv = "development"
    THEN IF p.nonce.t = "str"
           THEN Valid(Str(<<"0", "x">> \o PadEnd(p.nonce.s, HashPadLength, "0")))
           ELSE Invalid(Error("payload.nonce.padEnd is not a function"))
    ELSE Invalid(Error("Facilitator verification failed"))

\* FacilitatorFallback with the simulated hash built from the recipient
\* address instead of the nonce.
FacilitatorFallbackHashOfTo(p, nodeEnv) ==
  IF nodeEnv = "development"
    THEN IF p.nonce.t = "str"
           THEN Valid(Str(<<"0", "x">> \o PadEnd(p.to.s, HashPadLength, "0")))
           ELSE Invalid(Error("payload.nonce.padEnd is not a function"))
    ELSE Invalid(Error("Failed to communicate with payment facilitator"))

\* The catch block of verifyWithFacilitator.  padEnd on a nonce that is not a
\* string raises a TypeError, which leaves the method and is caught by
\* verifyPayment.
FacilitatorFallback(p, nodeEnv) ==
  IF nodeEnv = "development"
    THEN IF p.nonce.t = "str"
           THEN Valid(Str(<<"0", "x">> \o PadEnd(p.nonce.s, HashPadLength, "0")))
           ELSE Invalid(Error("payload.nonce.padEnd is not a function"))
    ELSE Invalid(Error("Failed to communicate with payment facilitator"))

\* VerifyWithFacilitator with the fields of the facilitator's body copied into
\* the result beside `valid`.
VerifyWithFacilitatorCopyBody(p, resp, nodeEnv) ==
  IF FacilitatorCallFailed(resp) THEN FacilitatorFallback(p, nodeEnv)
  ELSE IF resp.kind = "notok"
    THEN LET err == IF resp.parsable THEN resp.error ELSE "Unknown facilitator error"
         IN  [valid |-> FALSE, transactionHash |-> resp.transactionHash,
              error |-> Error(IF err # "" THEN err ELSE "Facilitator verification failed")]
  ELSE [valid |-> TRUE, transactionHash |-> resp.transactionHash,
        error |-> IF resp.error # "" THEN Error(resp.error) ELSE NoError]

\* verifyWithFacilitator after the fetch has settled, as returned through
\* verifyPayment.
\* VerifyWithFacilitator with a response of non-success status thrown into
\* the catch block, like a failure of the call.
VerifyWithFacilitatorThrowOnRejection(p, resp, nodeEnv) ==
  IF FacilitatorCallFailed(resp) \/ resp.kind = "notok"
    THEN FacilitatorFallback(p, nodeEnv)
  ELSE Valid(resp.transactionHash)

VerifyWithFacilitator(p, resp, nodeEnv) ==
  IF FacilitatorCallFailed(resp) THEN FacilitatorFallback(p, nodeEnv)
  ELSE IF resp.kind = "notok"
    THEN LET err == IF resp.parsable THEN resp.error ELSE "Unknown facilitator error"
         IN  Invalid(Error(IF err # "" THEN err ELSE "Facilitator verification failed"))
  ELSE Valid(resp.transactionHash)

\* x402-payments.ts holds the class X402PaymentManager twice; the two texts
\* differ in the branch of verifyWithFacilitator taken for a response with a
\* non-success status.  Which text a build runs is not decided by the source.
Copies == {"first", "second"}

\* verifyWithFacilitator of the first text: for a non-success status the body
\* is read and dropped, and the error returned is
\* `error instanceof Error ? error.message : 'Unknown error'`, where error is
\* the parsed body or the substitute object, never an Error.
VerifyWithFacilitatorFirstCopy(p, resp, nodeEnv) ==
  IF FacilitatorCallFailed(resp) THEN FacilitatorFallback(p, nodeEnv)
  ELSE IF resp.kind = "notok" THEN Invalid(Error("Unknown error"))
  ELSE Valid(resp.transactionHash)

\* verifyWithFacilitator of the text that is built.
VerifyWithFacilitatorOf(which, p, resp, nodeEnv) ==
  IF which = "first" THEN VerifyWithFacilitatorFirstCopy(p, resp, nodeEnv)
  ELSE VerifyWithFacilitator(p, resp, nodeEnv)

\* ------------------------------------------------------------------ inputs

\* CONFIG.pricing: 0.02 (standard) and 0.05 (premium) USDC.
PricingStandard == 2 * (AmountDenominator \div 100)
PricingPremium == 5 * (AmountDenominator \div 100)

Payer == <<"0", "x", "C", "1">>

BasePayload ==
  [scheme |-> Str(SchemeEip3009),
   signature |-> Str(<<"s", "i", "g">>),
   from |-> Str(Payer),
   to |-> Str(WalletBase),
   value |-> Str(<<"2", "0", "0", "0", "0">>),
   validAfter |-> Str(<<"1">>),
   validBefore |-> Str(<<"1">>),
   nonce |-> Str(<<"n", "1">>)]

\* The authorizations requests carry: the valid one and its variants, each
\* failing one step of the pipeline.
Payloads ==
  { BasePayload,
    [BasePayload EXCEPT !.nonce = Str(<<"n", "2">>)],
    [BasePayload EXCEPT !.to = Str(<<"0", "X", "a", "B">>)],
    [BasePayload EXCEPT !.scheme = Str(<<"e", "x", "a", "c", "t">>)],
    [BasePayload EXCEPT !.to = Str(<<"0", "x", "c", "d">>)],
    [BasePayload EXCEPT !.to = Num(1)],
    [BasePayload EXCEPT !.value = Str(<<"1", "9", "9", "9", "9">>)],
    [BasePayload EXCEPT !.value = Str(<<"a", "b", "c">>)],
    [BasePayload EXCEPT !.nonce = Undef] }

\* The X-PAYMENT header: absent, "", a string JSON.parse rejects, or a JSON
\* object.
Header(kind, obj) == [kind |-> kind, obj |-> obj]

Headers ==
  { Header("absent", EmptyObject), Header("empty", EmptyObject),
    Header("garbage", EmptyObject) } \cup { Header("json", p) : p \in Payloads }

\* A request: the middleware it passes (requirePayment: "mandatory",
\* optionalPayment: "optional") with the amount of its route, its method, path
\* and header, and whether an unexpected exception is raised in the middleware
\* when control returns from verifyPayment ("gate").
Request(mode, method, header, amount, fault) ==
  [mode |-> mode, method |-> method, path |-> "/api/execute", header |-> header,
   amount |-> amount, fault |-> fault]

NoRequest == Request("none", "", Header("absent", EmptyObject), 0, "none")

\* The headers of requests handled in pairs: the authorizations with another
\* nonce or with a value that is not a number are left to the requests
\* handled one at a time, where every field is varied.
PairHeaders ==
  Headers \ { Header("json", [BasePayload EXCEPT !.nonce = Str(<<"n", "2">>)]),
              Header("json", [BasePayload EXCEPT !.value = Str(<<"a", "b", "c">>)]) }

Requests ==
  { Request("mandatory", "POST", h, PricingStandard, "none") : h \in PairHeaders }
  \cup
  { Request("optional", "POST", h, PricingStandard, "none") :
      h \in { Header("absent", EmptyObject), Header("garbage", EmptyObject),
              Header("json", BasePayload),
              Header("json", [BasePayload EXCEPT !.nonce = Undef]),
              Header("json", [BasePayload EXCEPT !.value = Str(<<"1", "9", "9", "9", "9">>)]) } }
  \cup
  { Request("mandatory", "GET", h, PricingStandard, "none") :
      h \in {Header("absent", EmptyObject), Header("json", BasePayload)} }
  \cup
  { Request(m, "POST", Header("json", BasePayload), PricingStandard, "gate") :
      m \in {"mandatory", "optional"} }
  \cup
  { Request("mandatory", "POST", h, PricingPremium, "none") :
      h \in {Header("absent", EmptyObject), Header("json", BasePayload)} }

\* ------------------------------------------------------------------- state

VARIABLES
  nodeEnv,       \* CONFIG.server.nodeEnv, fixed at start
  copy,          \* which definition of X402PaymentManager is the one built
  now,           \* Math.floor(Date.now() / 1000)
  pc,            \* where each request is
  req,           \* the request
  parsed,        \* what parsePaymentHeader returned for it, once called
  nowRead,       \* the clock value verifyPayment read for it, or -1
  verifyArgs,    \* the arguments verifyPayment was called with
  facCalls,      \* fetches issued to the facilitator for it
  facResp,       \* what its fetch settled to
  verification,  \* what verifyPayment returned to its middleware
  status,        \* status of the response sent (0: none sent)
  body,          \* body of the response sent
  payResponse,   \* the X-Payment-Response header
  nextCalls,     \* calls of next()
  context,       \* req.x402Payment
  handler,       \* what executeHandler did with the request, once it ran
  replay         \* history: the request arrived with an authorization (payer
                 \* and nonce) that verifyPayment had already accepted

vars ==
  <<nodeEnv, copy, handler, now, pc, req, parsed, nowRead, verifyArgs, facCalls, facResp, verification,
    status, body, payResponse, nextCalls, context, replay>>

NoParse == [called |-> FALSE, result |-> Null]
NoArgs == [called |-> FALSE, payload |-> EmptyObject, requiredAmount |-> 0]
NoVerification == [valid |-> FALSE, transactionHash |-> Undef, error |-> NoError]
NoContext ==
  [attached |-> FALSE, verified |-> FALSE, amount |-> 0,
   transactionHash |-> Undef, payer |-> Undef]
NoBody == [error |-> "", message |-> NoError, accepts |-> <<>>]
NoPayment == [amount |-> 0, payer |-> Undef, transactionHash |-> Undef]
NoHandler ==
  [called |-> FALSE, status |-> 0, error |-> "", executed |-> FALSE, payment |-> NoPayment]
NoPayResponse == [set |-> FALSE, transactionHash |-> Undef, network |-> "", amount |-> 0]

Init ==
  /\ nodeEnv \in NodeEnvs
  /\ copy \in Copies
  /\ now = 0
  /\ pc = [r \in Reqs |-> "idle"]
  /\ req = [r \in Reqs |-> NoRequest]
  /\ parsed = [r \in Reqs |-> NoParse]
  /\ nowRead = [r \in Reqs |-> -1]
  /\ verifyArgs = [r \in Reqs |-> NoArgs]
  /\ facCalls = [r \in Reqs |-> 0]
  /\ facResp = [r \in Reqs |-> NoResponse]
  /\ verification = [r \in Reqs |-> NoVerification]
  /\ status = [r \in Reqs |-> 0]
  /\ body = [r \in Reqs |-> NoBody]
  /\ payResponse = [r \in Reqs |-> NoPayResponse]
  /\ nextCalls = [r \in Reqs |-> 0]
  /\ context = [r \in Reqs |-> NoContext]
  /\ replay = [r \in Reqs |-> FALSE]
  /\ handler = [r \in Reqs |-> NoHandler]

\* --------------------------------------------------------------- middleware

\* maxTimeoutSeconds of the advertised requirement.
MaxTimeoutSeconds == 60

\* (config.amount * 1_000_000).toString(): the product is not floored, so the
\* string has a fractional part when the amount has more than six decimals.
AmountString(amount) ==
  [whole |-> amount \div SubUnit, fraction |-> amount % SubUnit]

\* GateRequirement with the resource written out as the path of the execute
\* route instead of being read from the request.
GateRequirementFixedPath(in) ==
  [scheme |-> "exact", network |-> "base",
   maxAmountRequired |-> AmountString(in.amount), resource |-> "/api/execute",
   payTo |-> WalletBase, maxTimeoutSeconds |-> MaxTimeoutSeconds]

\* The one entry of `accepts` in the 402 body of requirePayment.
GateRequirement(in) ==
  [scheme |-> "exact", network |-> "base",
   maxAmountRequired |-> AmountString(in.amount), resource |-> in.path,
   payTo |-> WalletBase, maxTimeoutSeconds |-> MaxTimeoutSeconds]

\* What a middleware leaves behind when it ends.
Outcome(st, bd, hdr, calls, ctx) ==
  [status |-> st, body |-> bd, payResponse |-> hdr, nextCalls |-> calls, context |-> ctx]

ErrorBody(err, message) == [error |-> err, message |-> message, accepts |-> <<>>]

UnverifiedContext ==
  [attached |-> TRUE, verified |-> FALSE, amount |-> 0,
   transactionHash |-> Undef, payer |-> Undef]

\* VerifiedContext with the amount taken from what the payer authorized (the
\* value, brought back to the decimal unit) instead of config.amount.
VerifiedContextPaidAmount(in, payload, ver) ==
  [attached |-> TRUE, verified |-> TRUE, amount |-> ParseInt(payload.value).n * SubUnit,
   transactionHash |-> ver.transactionHash, payer |-> payload.from]

\* VerifiedContext with the payer taken from the `to` field of the
\* authorization.
VerifiedContextPayerTo(in, payload, ver) ==
  [attached |-> TRUE, verified |-> TRUE, amount |-> in.amount,
   transactionHash |-> ver.transactionHash, payer |-> payload.to]

VerifiedContext(in, payload, ver) ==
  [attached |-> TRUE, verified |-> TRUE, amount |-> in.amount,
   transactionHash |-> ver.transactionHash, payer |-> payload.from]

\* requirePayment, the method is not POST: next() at once.
MandatoryPassThrough == Outcome(0, NoBody, NoPayResponse, 1, NoContext)

\* MandatoryNoHeader with the `return` before res.status(402) forgotten: the
\* requirement is sent and the handler goes on to call next().
MandatoryNoHeaderContinues(in) ==
  Outcome(402,
          [error |-> "Payment Required", message |-> NoError,
           accepts |-> <<GateRequirement(in)>>],
          NoPayResponse, 1, NoContext)

\* requirePayment, no header: 402 with the requirement.
MandatoryNoHeader(in) ==
  Outcome(402,
          [error |-> "Payment Required", message |-> NoError,
           accepts |-> <<GateRequirement(in)>>],
          NoPayResponse, 0, NoContext)

\* requirePayment, parsePaymentHeader returned null: 400.
MandatoryParseFailed ==
  Outcome(400, ErrorBody("Invalid Payment", Error("Could not parse X-PAYMENT header")),
          NoPayResponse, 0, NoContext)

\* requirePayment, the catch block: 500.
MandatoryCaught ==
  Outcome(500, ErrorBody("Internal Server Error", Error("Payment processing failed")),
          NoPayResponse, 0, NoContext)

\* MandatoryAfterVerify with the `return` of the 402 branch forgotten: the
\* rejection is sent and the request continues downstream all the same.
MandatoryAfterVerifyNoReturn(in, payload, ver) ==
  IF in.fault = "gate" THEN MandatoryCaught
  ELSE Outcome(IF ver.valid THEN 0 ELSE 402,
               IF ver.valid THEN NoBody
               ELSE ErrorBody("Payment Verification Failed",
                              IF ver.error.defined /\ ver.error.text # ""
                                THEN ver.error
                                ELSE Error("Payment could not be verified")),
               IF Truthy(ver.transactionHash)
                 THEN [set |-> TRUE, transactionHash |-> ver.transactionHash,
                       network |-> NetworkName, amount |-> in.amount]
                 ELSE NoPayResponse,
               1, VerifiedContext(in, payload, ver))

\* MandatoryAfterVerify with the 402 of a failed verification always carrying
\* the fixed message instead of the error verifyPayment returned.
MandatoryAfterVerifyFixedMessage(in, payload, ver) ==
  IF in.fault = "gate" THEN MandatoryCaught
  ELSE IF ~ver.valid
    THEN Outcome(402,
                 ErrorBody("Payment Verification Failed",
                           Error("Payment could not be verified")),
                 NoPayResponse, 0, NoContext)
  ELSE Outcome(0, NoBody,
               IF Truthy(ver.transactionHash)
                 THEN [set |-> TRUE, transactionHash |-> ver.transactionHash,
                       network |-> NetworkName, amount |-> in.amount]
                 ELSE NoPayResponse,
               1, VerifiedContext(in, payload, ver))

\* requirePayment once verifyPayment has returned ver.
MandatoryAfterVerify(in, payload, ver) ==
  IF in.fault = "gate" THEN MandatoryCaught
  ELSE IF ~ver.valid
    THEN Outcome(402,
                 ErrorBody("Payment Verification Failed",
                           IF ver.error.defined /\ ver.error.text # ""
                             THEN ver.error
                             ELSE Error("Payment could not be verified")),
                 NoPayResponse, 0, NoContext)
  ELSE Outcome(0, NoBody,
               IF Truthy(ver.transactionHash)
                 THEN [set |-> TRUE, transactionHash |-> ver.transactionHash,
                       network |-> NetworkName, amount |-> in.amount]
                 ELSE NoPayResponse,
               1, VerifiedContext(in, payload, ver))

\* optionalPayment, no header: marked unpaid, next().
OptionalNoHeader == Outcome(0, NoBody, NoPayResponse, 1, UnverifiedContext)

\* optionalPayment, parsePaymentHeader returned null: the if is skipped and
\* next() is called; req.x402Payment is not assigned.
OptionalParseFailed == Outcome(0, NoBody, NoPayResponse, 1, NoContext)

\* OptionalAfterVerify with the verified context attached whatever the
\* verification said.
OptionalAfterVerifyTrusting(in, payload, ver) ==
  IF in.fault = "gate" THEN Outcome(0, NoBody, NoPayResponse, 1, UnverifiedContext)
  ELSE Outcome(0, NoBody, NoPayResponse, 1, VerifiedContext(in, payload, ver))

\* OptionalAfterVerify with the confirmation header of requirePayment set on
\* its success path as well.
OptionalAfterVerifyConfirming(in, payload, ver) ==
  IF in.fault = "gate" THEN Outcome(0, NoBody, NoPayResponse, 1, UnverifiedContext)
  ELSE IF ver.valid
    THEN Outcome(0, NoBody,
                 IF Truthy(ver.transactionHash)
                   THEN [set |-> TRUE, transactionHash |-> ver.transactionHash,
                         network |-> NetworkName, amount |-> in.amount]
                   ELSE NoPayResponse,
                 1, VerifiedContext(in, payload, ver))
  ELSE Outcome(0, NoBody, NoPayResponse, 1, UnverifiedContext)

\* optionalPayment once verifyPayment has returned ver; its catch block marks
\* the request unpaid and calls next().
OptionalAfterVerify(in, payload, ver) ==
  IF in.fault = "gate" THEN Outcome(0, NoBody, NoPayResponse, 1, UnverifiedContext)
  ELSE IF ver.valid
    THEN Outcome(0, NoBody, NoPayResponse, 1, VerifiedContext(in, payload, ver))
  ELSE Outcome(0, NoBody, NoPayResponse, 1, UnverifiedContext)

\* GateEntry of requirePayment with the null test after parsePaymentHeader
\* forgotten: what was parsed goes to verifyPayment whatever it is.
GateEntryNoNullTest(in) ==
  IF in.mode = "mandatory"
    THEN IF in.method # "POST" THEN [done |-> TRUE, outcome |-> MandatoryPassThrough]
         ELSE IF HeaderMissing(in.header)
           THEN [done |-> TRUE, outcome |-> MandatoryNoHeader(in)]
         ELSE [done |-> FALSE, outcome |-> MandatoryCaught]
    ELSE IF HeaderMissing(in.header) THEN [done |-> TRUE, outcome |-> OptionalNoHeader]
         ELSE IF ~ParsePaymentHeader(in.header).ok
           THEN [done |-> TRUE, outcome |-> OptionalParseFailed]
         ELSE [done |-> FALSE, outcome |-> MandatoryCaught]

\* GateEntry of requirePayment with the header test ahead of the method test:
\* a request of any method without the header gets the 402.
GateEntryHeaderFirst(in) ==
  IF in.mode = "mandatory"
    THEN IF HeaderMissing(in.header)
           THEN [done |-> TRUE, outcome |-> MandatoryNoHeader(in)]
         ELSE IF in.method # "POST" THEN [done |-> TRUE, outcome |-> MandatoryPassThrough]
         ELSE IF ~ParsePaymentHeader(in.header).ok
           THEN [done |-> TRUE, outcome |-> MandatoryParseFailed]
         ELSE [done |-> FALSE, outcome |-> MandatoryCaught]
    ELSE IF HeaderMissing(in.header) THEN [done |-> TRUE, outcome |-> OptionalNoHeader]
         ELSE IF ~ParsePaymentHeader(in.header).ok
           THEN [done |-> TRUE, outcome |-> OptionalParseFailed]
         ELSE [done |-> FALSE, outcome |-> MandatoryCaught]

\* The middleware's synchronous run when it ends before verifyPayment is
\* called; "verify" when verifyPayment is called.
GateEntry(in) ==
  IF in.mode = "mandatory"
    THEN IF in.method # "POST" THEN [done |-> TRUE, outcome |-> MandatoryPassThrough]
         ELSE IF HeaderMissing(in.header)
           THEN [done |-> TRUE, outcome |-> MandatoryNoHeader(in)]
         ELSE IF ~ParsePaymentHeader(in.header).ok
           THEN [done |-> TRUE, outcome |-> MandatoryParseFailed]
         ELSE [done |-> FALSE, outcome |-> MandatoryCaught]
    ELSE IF HeaderMissing(in.header) THEN [done |-> TRUE, outcome |-> OptionalNoHeader]
         ELSE IF ~ParsePaymentHeader(in.header).ok
           THEN [done |-> TRUE, outcome |-> OptionalParseFailed]
         ELSE [done |-> FALSE, outcome |-> MandatoryCaught]

AfterVerify(in, payload, ver) ==
  IF in.mode = "mandatory" THEN MandatoryAfterVerify(in, payload, ver)
  ELSE OptionalAfterVerify(in, payload, ver)

\* The call of parsePaymentHeader in the middleware's synchronous run: none
\* when requirePayment passes a non-POST request through or when the header
\* is missing.
ParseCall(in) ==
  IF (in.mode = "mandatory" /\ in.method # "POST") \/ HeaderMissing(in.header)
    THEN NoParse
    ELSE [called |-> TRUE, result |-> ParsePaymentHeader(in.header)]

\* ----------------------------------------------------------------- actions

\* The middleware ends for request r with outcome o.
Finish(r, o) ==
  /\ pc' = [pc EXCEPT ![r] = "done"]
  /\ status' = [status EXCEPT ![r] = o.status]
  /\ body' = [body EXCEPT ![r] = o.body]
  /\ payResponse' = [payResponse EXCEPT ![r] = o.payResponse]
  /\ nextCalls' = [nextCalls EXCEPT ![r] = nextCalls[r] + o.nextCalls]
  /\ context' = [context EXCEPT ![r] = o.context]

\* verifyPayment has returned valid=true for request q.
Accepted(q) == pc[q] \in {"verified", "done"} /\ verification[q].valid

\* A request reaches the middleware.
Arrive(r) ==
  /\ pc[r] = "idle"
  /\ \E in \in Requests :
       /\ req' = [req EXCEPT ![r] = in]
       /\ replay' = [replay EXCEPT ![r] =
            /\ ParsePaymentHeader(in.header).ok
            /\ \E q \in Reqs :
                 /\ Accepted(q)
                 /\ verifyArgs[q].payload.from = in.header.obj.from
                 /\ verifyArgs[q].payload.nonce = in.header.obj.nonce]
  /\ pc' = [pc EXCEPT ![r] = "gate"]
  /\ UNCHANGED <<nodeEnv, copy, handler, parsed, now, nowRead, verifyArgs, facCalls, facResp, verification,
                 status, body, payResponse, nextCalls, context>>

\* The middleware runs and ends without calling verifyPayment.
GateEnd(r) ==
  /\ pc[r] = "gate"
  /\ GateEntry(req[r]).done
  /\ Finish(r, GateEntry(req[r]).outcome)
  /\ parsed' = [parsed EXCEPT ![r] = ParseCall(req[r])]
  /\ UNCHANGED <<nodeEnv, copy, handler, now, req, nowRead, verifyArgs, facCalls, facResp, verification, replay>>

\* The authorization parsed from the header of request r.
PayloadOf(r) == ParsePaymentHeader(req[r].header).payload

\* The local part of verifyPayment for request r, run now.
LocalVerdict(r) == VerifyPaymentLocal(PayloadOf(r), req[r].amount, now)

\* The middleware calls verifyPayment, and a local check fails: verifyPayment
\* returns at once; the middleware resumes in a later step.  The clock is read
\* only if the time-window check is reached.
GateVerifyRejected(r) ==
  /\ pc[r] = "gate"
  /\ ~GateEntry(req[r]).done
  /\ ~LocalVerdict(r).call
  /\ verifyArgs' = [verifyArgs EXCEPT ![r] =
       [called |-> TRUE, payload |-> PayloadOf(r), requiredAmount |-> req[r].amount]]
  /\ nowRead' = [nowRead EXCEPT ![r] =
       IF /\ SchemeOk(PayloadOf(r))
          /\ RecipientOk(PayloadOf(r))
          /\ AmountOk(PayloadOf(r), req[r].amount)
         THEN now ELSE -1]
  /\ verification' = [verification EXCEPT ![r] = LocalVerdict(r).result]
  /\ pc' = [pc EXCEPT ![r] = "verified"]
  /\ parsed' = [parsed EXCEPT ![r] = ParseCall(req[r])]
  /\ UNCHANGED <<nodeEnv, copy, handler, now, req, facCalls, facResp, status, body, payResponse,
                 nextCalls, context, replay>>

\* The middleware calls verifyPayment, every local check passes and the fetch
\* to the facilitator is issued; the request is suspended on it.
GateCallFacilitator(r) ==
  /\ pc[r] = "gate"
  /\ ~GateEntry(req[r]).done
  /\ LocalVerdict(r).call
  /\ verifyArgs' = [verifyArgs EXCEPT ![r] =
       [called |-> TRUE, payload |-> PayloadOf(r), requiredAmount |-> req[r].amount]]
  /\ nowRead' = [nowRead EXCEPT ![r] = now]
  /\ facCalls' = [facCalls EXCEPT ![r] = facCalls[r] + 1]
  /\ pc' = [pc EXCEPT ![r] = "awaitFetch"]
  /\ parsed' = [parsed EXCEPT ![r] = ParseCall(req[r])]
  /\ UNCHANGED <<nodeEnv, copy, handler, now, req, facResp, verification, status, body, payResponse,
                 nextCalls, context, replay>>

\* The fetch settles: the facilitator answers, or the call fails.  No timer of
\* the program bounds the wait: fetch is given no signal.
FetchSettle(r) ==
  /\ pc[r] = "awaitFetch"
  /\ \E resp \in FacilitatorResponses : facResp' = [facResp EXCEPT ![r] = resp]
  /\ pc' = [pc EXCEPT ![r] = "fetchSettled"]
  /\ UNCHANGED <<nodeEnv, copy, handler, parsed, now, req, nowRead, verifyArgs, facCalls, verification,
                 status, body, payResponse, nextCalls, context, replay>>

\* FacilitatorReturn with one retry of a failed call.
FacilitatorReturnRetry(r) ==
  /\ pc[r] = "fetchSettled"
  /\ IF facResp[r].kind = "neterr" /\ facCalls[r] < 2
       THEN /\ facCalls' = [facCalls EXCEPT ![r] = facCalls[r] + 1]
            /\ pc' = [pc EXCEPT ![r] = "awaitFetch"]
            /\ UNCHANGED verification
       ELSE /\ verification' = [verification EXCEPT ![r] =
                 VerifyWithFacilitatorOf(copy, verifyArgs[r].payload, facResp[r], nodeEnv)]
            /\ pc' = [pc EXCEPT ![r] = "verified"]
            /\ UNCHANGED facCalls
  /\ UNCHANGED <<nodeEnv, copy, handler, parsed, now, req, nowRead, verifyArgs, facResp,
                 status, body, payResponse, nextCalls, context, replay>>

\* verifyWithFacilitator resumes after the fetch and returns through
\* verifyPayment.
FacilitatorReturn(r) ==
  /\ pc[r] = "fetchSettled"
  /\ verification' = [verification EXCEPT ![r] =
       VerifyWithFacilitatorOf(copy, verifyArgs[r].payload, facResp[r], nodeEnv)]
  /\ pc' = [pc EXCEPT ![r] = "verified"]
  /\ UNCHANGED <<nodeEnv, copy, handler, parsed, now, req, nowRead, verifyArgs, facCalls, facResp,
                 status, body, payResponse, nextCalls, context, replay>>

\* VerificationOf with the result kept in a field of the shared manager: the
\* middleware reads what another request's verification left there.
VerificationOfShared(r) ==
  IF \E q \in Reqs \ {r} : pc[q] \in {"verified", "done"} /\ verifyArgs[q].called
    THEN verification[CHOOSE q \in Reqs \ {r} :
                        pc[q] \in {"verified", "done"} /\ verifyArgs[q].called]
    ELSE verification[r]

\* The result of verifyPayment the middleware of request r resumes with.
VerificationOf(r) == verification[r]

\* The middleware resumes after `await verifyPayment(...)` and ends.
Resume(r) ==
  /\ pc[r] = "verified"
  /\ Finish(r, AfterVerify(req[r], verifyArgs[r].payload, VerificationOf(r)))
  /\ UNCHANGED <<nodeEnv, copy, handler, parsed, now, req, nowRead, verifyArgs, facCalls, facResp, verification, replay>>

\* The clock advances.
Tick ==
  /\ now < MaxNow
  /\ now' = now + 1
  /\ UNCHANGED <<nodeEnv, copy, handler, parsed, pc, req, nowRead, verifyArgs, facCalls, facResp, verification,
                 status, body, payResponse, nextCalls, context, replay>>

Next ==
  \/ Tick
  \/ \E r \in Reqs :
       \/ Arrive(r)
       \/ GateEnd(r)
       \/ GateVerifyRejected(r)
       \/ GateCallFacilitator(r)
       \/ FetchSettle(r)
       \/ FacilitatorReturn(r)
       \/ Resume(r)

Spec == Init /\ [][Next]_vars

\* The steps of the program for request r: the continuations the event loop
\* runs once they are ready.
Program(r) ==
  \/ GateEnd(r)
  \/ GateVerifyRejected(r)
  \/ GateCallFacilitator(r)
  \/ FacilitatorReturn(r)
  \/ Resume(r)

\* One request handled alone.
LoneNext ==
  \/ Tick
  \/ Arrive(1)
  \/ FetchSettle(1)
  \/ Program(1)

\* The event loop runs every continuation that is ready; nothing obliges the
\* facilitator to answer, a client to send a request, or the clock to advance.
FairSpec == Init /\ [][LoneNext]_vars /\ WF_vars(Program(1))

\* ------------------------------------------------------- execute handler

\* What sandboxExecutor.execute does with a request: it resolves with a
\* result whose success is true or false, or it throws.
SandboxResults == {"success", "failure", "throws"}

HandlerResponse(st, err, executed, payment) ==
  [called |-> TRUE, status |-> st, error |-> err, executed |-> executed,
   payment |-> payment]

\* executeHandler without the test of req.x402Payment?.verified.
ExecuteHandlerResponseTrusting(ctx, bodyValid, sandbox) ==
  IF ~bodyValid THEN HandlerResponse(400, "Invalid Request", FALSE, NoPayment)
  ELSE IF sandbox = "throws"
    THEN HandlerResponse(500, "Execution Failed", TRUE, NoPayment)
  ELSE HandlerResponse(200, "", TRUE,
         [amount |-> ctx.amount, payer |-> ctx.payer,
          transactionHash |-> ctx.transactionHash])

\* executeHandler on a request whose x402Payment is ctx: the body is
\* validated, then the verified flag is tested, then the sandbox runs and its
\* result is sent with the payment read from the context.
ExecuteHandlerResponse(ctx, bodyValid, sandbox) ==
  IF ~bodyValid THEN HandlerResponse(400, "Invalid Request", FALSE, NoPayment)
  ELSE IF ~(ctx.attached /\ ctx.verified)
    THEN HandlerResponse(500, "Internal Server Error", FALSE, NoPayment)
  ELSE IF sandbox = "throws"
    THEN HandlerResponse(500, "Execution Failed", TRUE, NoPayment)
  ELSE HandlerResponse(200, "", TRUE,
         [amount |-> ctx.amount, payer |-> ctx.payer,
          transactionHash |-> ctx.transactionHash])

\* The middleware has called next() for request r: executeHandler runs.
ExecuteHandler(r) ==
  /\ pc[r] = "done"
  /\ nextCalls[r] = 1
  /\ ~handler[r].called
  /\ \E bodyValid \in BOOLEAN, sandbox \in SandboxResults :
       handler' = [handler EXCEPT ![r] =
                     ExecuteHandlerResponse(context[r], bodyValid, sandbox)]
  /\ UNCHANGED <<nodeEnv, copy, now, pc, req, parsed, nowRead, verifyArgs, facCalls,
                 facResp, verification, status, body, payResponse, nextCalls,
                 context, replay>>

\* Requests to a route that ends in executeHandler: POST /api/execute behind
\* requirePayment at the standard price, as index.ts mounts it, and the
\* handler behind a gate that calls next() without a verified context
\* (requirePayment on another method, optionalPayment).
RouteRequests ==
  { Request("mandatory", "POST", h, PricingStandard, f) :
      h \in Headers, f \in {"none", "gate"} }
  \cup
  { Request("mandatory", "GET", h, PricingStandard, "none") :
      h \in {Header("absent", EmptyObject), Header("json", BasePayload)} }
  \cup
  { Request("optional", "POST", h, PricingStandard, f) :
      h \in { Header("absent", EmptyObject), Header("garbage", EmptyObject),
              Header("json", BasePayload),
              Header("json", [BasePayload EXCEPT !.value = Str(<<"1", "9", "9", "9", "9">>)]) },
      f \in {"none", "gate"} }

\* ------------------------------------- one request, every field varied

\* Values of the fields of an authorization, varied independently of each
\* other: a scheme that is accepted and one that is not, the receiving
\* address in two spellings and another address, values around the standard
\* price and the premium price, and window bounds around the clock.
SchemeValues == {Str(SchemeEip3009), Str(<<"e", "x", "a", "c", "t">>)}

ToValues == {Str(WalletBase), Str(<<"0", "X", "a", "B">>), Str(<<"0", "x", "c", "d">>)}

ValueValues ==
  { Str(<<"1", "9", "9", "9", "9">>), Str(<<"2", "0", "0", "0", "0">>),
    Str(<<"2", "0", "0", "0", "1">>), Str(<<"5", "0", "0", "0", "0">>) }

WindowValues == {Str(<<"0">>), Str(<<"1">>), Str(<<"2">>)}

VariedPayloads ==
  { [BasePayload EXCEPT !.scheme = s, !.to = a, !.value = v,
                        !.validAfter = va, !.validBefore = vb] :
      s \in SchemeValues, a \in ToValues, v \in ValueValues,
      va \in WindowValues, vb \in WindowValues }

\* Authorizations whose window bounds are not numbers: one bound, the other,
\* or both are text parseInt gives NaN for.
NonNumericWindows ==
  { [BasePayload EXCEPT !.validAfter = Str(<<"a", "b", "c">>)],
    [BasePayload EXCEPT !.validBefore = Str(<<"a", "b", "c">>)],
    [BasePayload EXCEPT !.validAfter = Str(<<"a", "b", "c">>),
                        !.validBefore = Str(<<"a", "b", "c">>)] }

\* JSON objects in which every field is present and one holds a value that
\* JavaScript takes for false: the number 0 or the empty string.
FalsyFields ==
  { [BasePayload EXCEPT !.validAfter = Num(0)],
    [BasePayload EXCEPT !.value = Num(0)],
    [BasePayload EXCEPT !.signature = Str(<<>>)],
    [BasePayload EXCEPT !.nonce = Str(<<>>)] }

\* The JSON objects that lack one field.
MissingOneField == { [BasePayload EXCEPT ![f] = Undef] : f \in Fields }

\* An amount with seven decimal places, 0.0200005: config.amount is any
\* number.
PricingFractional == PricingStandard + (SubUnit \div 2)

\* req.path of the routes the middleware is mounted on.
Paths == {"/api/execute", "/api/premium"}

\* The requests requirePayment is given, one at a time.
SingleRequests ==
  { Request("mandatory", "POST", Header("json", p), PricingStandard, "none") :
      p \in VariedPayloads \cup Payloads \cup MissingOneField \cup NonNumericWindows
              \cup FalsyFields }
  \cup
  { [Request("mandatory", "POST", h, a, "none") EXCEPT !.path = path] :
      h \in { Header("absent", EmptyObject), Header("empty", EmptyObject),
              Header("garbage", EmptyObject) },
      a \in {PricingStandard, PricingPremium, PricingFractional}, path \in Paths }
  \cup
  { Request("mandatory", "POST", Header("json", [BasePayload EXCEPT !.value = v]),
            a, "none") : v \in ValueValues, a \in {PricingPremium, PricingFractional} }
  \cup
  { Request("mandatory", "POST", Header("json", BasePayload), PricingStandard, "gate") }
  \cup
  { Request("mandatory", "GET", h, PricingStandard, "none") :
      h \in { Header("absent", EmptyObject), Header("garbage", EmptyObject),
              Header("json", BasePayload) } }

\* Request 1 has reached requirePayment; no other request exists.
SingleInit ==
  /\ nodeEnv \in NodeEnvs
  /\ copy \in Copies
  /\ now = 0
  /\ pc = [r \in Reqs |-> IF r = 1 THEN "gate" ELSE "idle"]
  /\ \E in \in SingleRequests : req = [r \in Reqs |-> IF r = 1 THEN in ELSE NoRequest]
  /\ parsed = [r \in Reqs |-> NoParse]
  /\ nowRead = [r \in Reqs |-> -1]
  /\ verifyArgs = [r \in Reqs |-> NoArgs]
  /\ facCalls = [r \in Reqs |-> 0]
  /\ facResp = [r \in Reqs |-> NoResponse]
  /\ verification = [r \in Reqs |-> NoVerification]
  /\ status = [r \in Reqs |-> 0]
  /\ body = [r \in Reqs |-> NoBody]
  /\ payResponse = [r \in Reqs |-> NoPayResponse]
  /\ nextCalls = [r \in Reqs |-> 0]
  /\ context = [r \in Reqs |-> NoContext]
  /\ replay = [r \in Reqs |-> FALSE]
  /\ handler = [r \in Reqs |-> NoHandler]

SingleNext ==
  \/ Tick
  \/ FetchSettle(1)
  \/ Program(1)

SingleSpec == SingleInit /\ [][SingleNext]_vars

\* Request 1 has reached the gate of a route that ends in executeHandler.
RouteInit ==
  /\ nodeEnv \in NodeEnvs
  /\ copy \in Copies
  /\ now = 0
  /\ pc = [r \in Reqs |-> IF r = 1 THEN "gate" ELSE "idle"]
  /\ \E in \in RouteRequests : req = [r \in Reqs |-> IF r = 1 THEN in ELSE NoRequest]
  /\ parsed = [r \in Reqs |-> NoParse]
  /\ nowRead = [r \in Reqs |-> -1]
  /\ verifyArgs = [r \in Reqs |-> NoArgs]
  /\ facCalls = [r \in Reqs |-> 0]
  /\ facResp = [r \in Reqs |-> NoResponse]
  /\ verification = [r \in Reqs |-> NoVerification]
  /\ status = [r \in Reqs |-> 0]
  /\ body = [r \in Reqs |-> NoBody]
  /\ payResponse = [r \in Reqs |-> NoPayResponse]
  /\ nextCalls = [r \in Reqs |-> 0]
  /\ context = [r \in Reqs |-> NoContext]
  /\ replay = [r \in Reqs |-> FALSE]
  /\ handler = [r \in Reqs |-> NoHandler]

RouteNext ==
  \/ Tick
  \/ FetchSettle(1)
  \/ Program(1)
  \/ ExecuteHandler(1)

RouteSpec == RouteInit /\ [][RouteNext]_vars

\* ------------------------------------------------------------------ claims

\* verifyPayment was called for request r and has returned.
Returned(r) == verifyArgs[r].called /\ pc[r] \in {"verified", "done"}

\* C1: in mandatory and in optional mode, a payment context with
\* verified=true is attached to a request only if verifyPayment was called
\* with that request's parsed authorization and its middleware's configured
\* amount, and returned valid=true.
C1_VerifiedOnlyIfValid ==
  \A r \in Reqs :
    context[r].verified =>
      /\ ParsePaymentHeader(req[r].header).ok
      /\ verifyArgs[r].called
      /\ verifyArgs[r].payload = PayloadOf(r)
      /\ verifyArgs[r].requiredAmount = req[r].amount
      /\ verification[r].valid

\* A verified context is attached in mandatory mode and in optional mode.
C1_Witness ==
  \E r, q \in Reqs :
    /\ req[r].mode = "mandatory" /\ context[r].verified
    /\ req[q].mode = "optional" /\ context[q].verified

\* The ways a request fails to pay: no header, a header that does not parse,
\* or an authorization verifyPayment rejected.
PaymentFailed(r) ==
  /\ pc[r] \in {"verified", "done"}
  /\ \/ HeaderMissing(req[r].header)
     \/ ~ParsePaymentHeader(req[r].header).ok
     \/ (Returned(r) /\ ~verification[r].valid)

\* C2 as stated: in mandatory mode, for every request whose X-PAYMENT header
\* is absent, fails to parse or fails verification, next is never invoked.
C2_FailureBlocksAnyMethod ==
  \A r \in Reqs :
    req[r].mode = "mandatory" /\ PaymentFailed(r) => nextCalls[r] = 0

\* C2 amended: in mandatory mode, for every POST request whose X-PAYMENT
\* header is absent, fails to parse or fails verification, next is never
\* invoked.
C2_FailureBlocksPost ==
  \A r \in Reqs :
    req[r].mode = "mandatory" /\ req[r].method = "POST" /\ PaymentFailed(r)
      => nextCalls[r] = 0

\* A mandatory POST request ended blocked after a failed verification, and
\* another after a parse failure.
C2_Witness ==
  \E r, q \in Reqs :
    /\ req[r].mode = "mandatory" /\ req[r].method = "POST" /\ pc[r] = "done"
    /\ Returned(r) /\ ~verification[r].valid /\ nextCalls[r] = 0
    /\ req[q].mode = "mandatory" /\ req[q].method = "POST" /\ pc[q] = "done"
    /\ ~HeaderMissing(req[q].header) /\ ~ParsePaymentHeader(req[q].header).ok
    /\ nextCalls[q] = 0

\* The facilitator network call itself failed: the fetch was rejected
\* (unreachable, timeout) or the body of the response did not parse.
CallItselfFailed(resp) ==
  resp.kind = "neterr" \/ (resp.kind \in {"ok", "notok"} /\ ~resp.parsable)

\* C3: outside development mode, when the facilitator network call itself
\* fails, verifyPayment never returns valid=true.
C3_UnreachableNeverValid ==
  \A r \in Reqs :
    nodeEnv # "development" /\ Returned(r) /\ CallItselfFailed(facResp[r])
      => ~verification[r].valid

\* In production a request whose fetch was rejected has been turned down.
C3_Witness ==
  \E r \in Reqs :
    /\ nodeEnv = "production" /\ pc[r] = "done" /\ facResp[r].kind = "neterr"
    /\ req[r].mode = "mandatory" /\ status[r] = 402

\* C4: the facilitator is called for a request only if the scheme, recipient,
\* amount and time-window checks have all passed for its authorization, the
\* window being checked against the clock verifyPayment read.
C4_FacilitatorOnlyAfterLocalChecks ==
  \A r \in Reqs :
    facCalls[r] > 0 =>
      /\ SchemeOk(PayloadOf(r))
      /\ RecipientOk(PayloadOf(r))
      /\ AmountOk(PayloadOf(r), req[r].amount)
      /\ nowRead[r] >= 0
      /\ WindowOk(PayloadOf(r), nowRead[r])

\* One request reached the facilitator, and one whose authorization is
\* outside its time window was turned down without a call.
C4_Witness ==
  \E r, q \in Reqs :
    /\ facCalls[r] = 1
    /\ Returned(q) /\ facCalls[q] = 0
    /\ SchemeOk(PayloadOf(q)) /\ RecipientOk(PayloadOf(q))
    /\ AmountOk(PayloadOf(q), req[q].amount) /\ ~WindowOk(PayloadOf(q), nowRead[q])

\* C5 as stated: in optional mode every failure path (absent header, parse
\* failure, verification failure, unexpected internal error) ends with a
\* context attached with verified=false and with next invoked.
C5_OptionalFailureAttachesUnverified ==
  \A r \in Reqs :
    /\ req[r].mode = "optional"
    /\ pc[r] = "done"
    /\ (PaymentFailed(r) \/ req[r].fault = "gate")
    => /\ context[r].attached
       /\ ~context[r].verified
       /\ nextCalls[r] = 1

\* An unexpected internal error was raised while request r was handled: in
\* the middleware itself, or inside verifyPayment (the TypeError of the
\* recipient check).
InternalFault(r) ==
  \/ (Returned(r) /\ req[r].fault = "gate")
  \/ (Returned(r) /\ SchemeOk(PayloadOf(r)) /\ RecipientThrows(PayloadOf(r)))

\* C6 as stated: in mandatory mode an unexpected internal error raised
\* anywhere in the pipeline, inside verifyPayment included, produces a 5xx
\* response, never a 402 or 400, and never passes the request downstream.
C6_InternalFaultIs5xx ==
  \A r \in Reqs :
    req[r].mode = "mandatory" /\ pc[r] = "done" /\ InternalFault(r)
      => status[r] >= 500 /\ nextCalls[r] = 0

\* C7 as stated: every request that reaches the facilitator step eventually
\* reaches a terminal gate state, even if the facilitator never answers.
C7_FacilitatorStepTerminates ==
  \A r \in Reqs : (pc[r] = "awaitFetch") ~> (pc[r] = "done")

\* C8: at most one facilitator call is issued for a request, and a failed
\* call is that request's result without a second call.
C8_NoRetry ==
  \A r \in Reqs :
    /\ facCalls[r] <= 1
    /\ (facResp[r].kind # "none" => facCalls[r] = 1)
    /\ (Returned(r) /\ CallItselfFailed(facResp[r]) /\ nodeEnv = "production"
          => ~verification[r].valid /\ facCalls[r] = 1)

\* A request whose one facilitator call failed has ended, turned down.
C8_Witness ==
  \E r \in Reqs :
    /\ pc[r] = "done" /\ facResp[r].kind = "neterr" /\ facCalls[r] = 1
    /\ ~verification[r].valid

\* C9 as stated: once an authorization has been verified, a later request
\* carrying the same authorization (same payer and nonce) is not accepted
\* again by verifyPayment.
C9_NoReplayAccepted ==
  \A r \in Reqs : replay[r] /\ Returned(r) => ~verification[r].valid

\* The outcome of a request handled alone: a function of its own header and
\* route, the configuration, the clock value it read and the answer to its
\* own facilitator call.
AloneOutcome(in, t, resp, env) ==
  IF GateEntry(in).done THEN GateEntry(in).outcome
  ELSE LET p == ParsePaymentHeader(in.header).payload
           local == VerifyPaymentLocal(p, in.amount, t)
       IN  AfterVerify(in, p,
                       IF local.call THEN VerifyWithFacilitatorOf(copy, p, resp, env)
                       ELSE local.result)

\* C10: in every interleaving, the terminal outcome and the attached context
\* of a request equal the outcome it has when handled alone.
C10_OutcomeIndependent ==
  \A r \in Reqs :
    pc[r] = "done" =>
      Outcome(status[r], body[r], payResponse[r], nextCalls[r], context[r])
        = AloneOutcome(req[r], nowRead[r], facResp[r], nodeEnv)

\* Two requests were answered differently by the facilitator and ended
\* differently, one verified and one turned down.
C10_Witness ==
  \E r, q \in Reqs :
    /\ pc[r] = "done" /\ pc[q] = "done"
    /\ facCalls[r] = 1 /\ facCalls[q] = 1
    /\ context[r].verified /\ ~context[q].verified
    /\ req[r].mode = "mandatory" /\ req[q].mode = "mandatory"

\* The local check that produces an error message: the TypeError of
\* payload.to.toLowerCase() is raised by the recipient check.
CheckOfError(text) ==
  CASE text = "Unsupported payment scheme" -> "scheme"
    [] text \in {"Invalid recipient address", "payload.to.toLowerCase is not a function"}
         -> "recipient"
    [] text = "Insufficient payment" -> "amount"
    [] text = "Payment authorization expired" -> "window"
    [] OTHER -> "none"

\* The earliest check, in the order scheme, recipient, amount, time window,
\* that the authorization p fails for the amount and at clock value t (t < 0:
\* the clock was not read, the window is not looked at).
EarliestFailing(p, requiredAmount, t) ==
  IF ~SchemeOk(p) THEN "scheme"
  ELSE IF ~RecipientOk(p) THEN "recipient"
  ELSE IF ~AmountOk(p, requiredAmount) THEN "amount"
  ELSE IF t >= 0 /\ ~WindowOk(p, t) THEN "window"
  ELSE "none"

\* The number of local checks the authorization p fails at clock value t.
FailedChecks(p, requiredAmount, t) ==
  (IF SchemeOk(p) THEN 0 ELSE 1) + (IF RecipientOk(p) THEN 0 ELSE 1)
    + (IF AmountOk(p, requiredAmount) THEN 0 ELSE 1) + (IF WindowOk(p, t) THEN 0 ELSE 1)

\* C11: the local checks run in the order scheme, recipient, amount, time
\* window: whenever verifyPayment returns for an authorization that fails one
\* or several local checks, it returns valid=false with the error of the
\* earliest failing check, and no facilitator call was made.
C11_EarliestFailingCheckReported ==
  \A r \in Reqs :
    Returned(r) /\ EarliestFailing(PayloadOf(r), req[r].amount, nowRead[r]) # "none"
      => /\ ~verification[r].valid
         /\ CheckOfError(verification[r].error.text)
              = EarliestFailing(PayloadOf(r), req[r].amount, nowRead[r])
         /\ facCalls[r] = 0

\* verifyPayment returned the recipient error for an authorization with the
\* right scheme that fails the recipient check, the amount check and, at the
\* present clock value, the time-window check.
C11_Witness ==
  /\ Returned(1)
  /\ SchemeOk(PayloadOf(1))
  /\ FailedChecks(PayloadOf(1), req[1].amount, now) = 3
  /\ verification[1].error.text = "Invalid recipient address"

\* Request r ended in RequirementEmitted: status 402, a body whose accepts
\* list holds one requirement, for the request's own path; nothing was
\* parsed or verified, no facilitator call was made, no context is attached
\* and next was not invoked.
RequirementEmitted(r) ==
  /\ status[r] = 402
  /\ Len(body[r].accepts) = 1
  /\ body[r].accepts[1].resource = req[r].path
  /\ ~parsed[r].called
  /\ ~verifyArgs[r].called
  /\ facCalls[r] = 0
  /\ ~context[r].attached
  /\ nextCalls[r] = 0

\* C12 as stated: in mandatory mode, a request with no or an empty X-PAYMENT
\* header ends in RequirementEmitted, whatever its method.
C12_NoHeaderEmitsRequirement ==
  \A r \in Reqs :
    req[r].mode = "mandatory" /\ HeaderMissing(req[r].header) /\ pc[r] = "done"
      => RequirementEmitted(r)

\* C12 amended: in mandatory mode, a POST request with no or an empty
\* X-PAYMENT header ends in RequirementEmitted (never in a 400).
C12_PostNoHeaderEmitsRequirement ==
  \A r \in Reqs :
    /\ req[r].mode = "mandatory"
    /\ req[r].method = "POST"
    /\ HeaderMissing(req[r].header)
    /\ pc[r] = "done"
    => RequirementEmitted(r)

\* A POST request to the premium path with an empty header has been answered
\* with the requirement.
C12_Witness ==
  /\ pc[1] = "done"
  /\ req[1].method = "POST"
  /\ req[1].header.kind = "empty"
  /\ req[1].path = "/api/premium"
  /\ status[1] = 402

\* The header is present and is not a payment authorization: it does not
\* deserialize, or the object lacks one of the eight fields.
Malformed(header) ==
  \/ header.kind = "garbage"
  \/ header.kind = "json" /\ \E f \in Fields : header.obj[f] = Undef

\* Request r, whose header is malformed, is or ends where C13 says: verifyPayment
\* is not invoked and no facilitator call is made; once ended, the status is
\* 400, nothing is attached and next was not invoked.
RejectedAtParse(r) ==
  /\ ~verifyArgs[r].called
  /\ facCalls[r] = 0
  /\ nowRead[r] < 0
  /\ pc[r] \in {"gate", "done"}
  /\ pc[r] = "done" =>
       /\ status[r] = 400
       /\ parsed[r].called
       /\ ~context[r].attached
       /\ nextCalls[r] = 0

\* C13 as stated: in mandatory mode, a present header that fails to parse
\* leads to Rejected(400) with verifyPayment never invoked and no facilitator
\* call, whatever the request's method.
C13_MalformedRejected400 ==
  \A r \in Reqs :
    req[r].mode = "mandatory" /\ Malformed(req[r].header) => RejectedAtParse(r)

\* C13 amended: in mandatory mode, a POST request with a present header that
\* fails to parse leads to Rejected(400) with verifyPayment never invoked and
\* no facilitator call.
C13_PostMalformedRejected400 ==
  \A r \in Reqs :
    req[r].mode = "mandatory" /\ req[r].method = "POST" /\ Malformed(req[r].header)
      => RejectedAtParse(r)

\* A POST request whose header lacks only the signature has been answered
\* with 400.
C13_Witness ==
  /\ pc[1] = "done"
  /\ req[1].method = "POST"
  /\ req[1].header = Header("json", [BasePayload EXCEPT !.signature = Undef])
  /\ status[1] = 400

\* The rejections of the verification pipeline, by the error verifyPayment
\* returns: the four local checks, the facilitator unavailable, and anything
\* else the facilitator rejected.
PipelineErrors ==
  { "Unsupported payment scheme", "Invalid recipient address", "Insufficient payment",
    "Payment authorization expired", "Failed to communicate with payment facilitator",
    "signature invalid", "nonce already used", "Facilitator verification failed",
    "Unknown facilitator error" }

\* C14: in mandatory mode every rejection of the verification pipeline ends
\* in a 402 that carries the pipeline's error, without next; and the status
\* classes are distinct: 400 is sent only after a parse failure, 402 only
\* when the header is missing or verifyPayment returned valid=false, a 5xx
\* only after an internal fault.
C14_RejectionClasses ==
  \A r \in Reqs :
    req[r].mode = "mandatory" /\ pc[r] = "done" =>
      /\ ( /\ Returned(r)
           /\ ~verification[r].valid
           /\ verification[r].error.text \in PipelineErrors
           /\ req[r].fault = "none"
           => /\ status[r] = 402
              /\ body[r].message = verification[r].error
              /\ nextCalls[r] = 0 )
      /\ status[r] \in {0, 400, 402, 500}
      /\ (status[r] = 400 =>
            /\ parsed[r].called
            /\ parsed[r].result = Null
            /\ \/ Malformed(req[r].header)
               \/ \E f \in Fields : ~Truthy(req[r].header.obj[f]))
      /\ (status[r] = 402 =>
            HeaderMissing(req[r].header) \/ (Returned(r) /\ ~verification[r].valid))
      /\ (status[r] = 500 => req[r].fault = "gate")

\* In production a request was rejected by the facilitator and answered with
\* a 402 that carries the facilitator's error.
C14_Witness ==
  /\ pc[1] = "done"
  /\ facResp[1].kind = "notok"
  /\ status[1] = 402
  /\ body[1].message.text = "signature invalid"

\* C15: parsePaymentHeader returns null, no payload at all, for every header
\* that does not deserialize and for every object that lacks one of the
\* eight fields, whichever field it is.
C15_MissingFieldRejected ==
  \A r \in Reqs :
    parsed[r].called /\ Malformed(req[r].header) => parsed[r].result = Null

\* parsePaymentHeader was called with an object that lacks only the nonce,
\* and returned null.
C15_Witness ==
  /\ parsed[1].called
  /\ req[1].header = Header("json", [BasePayload EXCEPT !.nonce = Undef])
  /\ parsed[1].result = Null

\* The field holds an integer written in decimal digits.
IsIntegerString(v) ==
  v.t = "str" /\ Len(v.s) > 0 /\ \A i \in 1..Len(v.s) : v.s[i] \in Digits

\* verifyPayment reached the amount check for request r and has returned.
AmountChecked(r) ==
  Returned(r) /\ SchemeOk(PayloadOf(r)) /\ RecipientOk(PayloadOf(r))

\* C16: whenever verifyPayment reaches the amount check with an integer
\* value, a value equal to or greater than the required smallest-unit amount
\* passes the check (the clock is read for the next check and the error is
\* not that of the amount), and a smaller value, required - 1 included, is
\* rejected with valid=false and the amount error, without a facilitator call.
C16_AmountBoundary ==
  \A r \in Reqs :
    AmountChecked(r) /\ IsIntegerString(PayloadOf(r).value) =>
      IF ParseInt(PayloadOf(r).value).n >= FloorSmallestUnit(req[r].amount)
        THEN /\ verification[r].error.text # "Insufficient payment"
             /\ nowRead[r] >= 0
        ELSE /\ ~verification[r].valid
             /\ verification[r].error.text = "Insufficient payment"
             /\ verification[r].error.required = FloorSmallestUnit(req[r].amount)
             /\ facCalls[r] = 0

\* An authorization of exactly the required amount has been accepted.
C16_Witness ==
  /\ AmountChecked(1)
  /\ IsIntegerString(PayloadOf(1).value)
  /\ ParseInt(PayloadOf(1).value).n = FloorSmallestUnit(req[1].amount)
  /\ verification[1].valid

\* Both window bounds of the authorization hold integers.
IntegerWindow(p) == IsIntegerString(p.validAfter) /\ IsIntegerString(p.validBefore)

\* C17: whenever verifyPayment reaches the time-window check with integer
\* bounds, the check passes (the facilitator is called) exactly when
\* validAfter <= now <= validBefore for the clock value it read; otherwise it
\* returns valid=false with the expiry error and calls no facilitator.
C17_WindowInclusive ==
  \A r \in Reqs :
    /\ verifyArgs[r].called
    /\ nowRead[r] >= 0
    /\ IntegerWindow(PayloadOf(r))
    => IF /\ ParseInt(PayloadOf(r).validAfter).n <= nowRead[r]
          /\ nowRead[r] <= ParseInt(PayloadOf(r).validBefore).n
         THEN /\ facCalls[r] = 1
              /\ verification[r].error.text # "Payment authorization expired"
         ELSE /\ facCalls[r] = 0
              /\ ~verification[r].valid
              /\ verification[r].error.text = "Payment authorization expired"

\* An authorization was accepted at now = validBefore, later than its
\* validAfter.
C17_Witness ==
  /\ Returned(1)
  /\ IntegerWindow(PayloadOf(1))
  /\ nowRead[1] = ParseInt(PayloadOf(1).validBefore).n
  /\ nowRead[1] > ParseInt(PayloadOf(1).validAfter).n
  /\ verification[1].valid

\* The mandatory gate resumed with a successful verification for request r
\* and ended, no exception being raised on the way.
VerifiedAndEnded(r) ==
  /\ req[r].mode = "mandatory"
  /\ pc[r] = "done"
  /\ Returned(r)
  /\ verification[r].valid
  /\ req[r].fault = "none"

\* C18: in mandatory mode, after a successful verification the attached
\* context has verified=true and the amount configured for the middleware,
\* whatever value, equal to or above the required one, the payer authorized.
C18_ChargedAmountIsConfigured ==
  \A r \in Reqs :
    VerifiedAndEnded(r) =>
      /\ context[r].attached
      /\ context[r].verified
      /\ context[r].amount = req[r].amount

\* A payer who authorized more than the required amount was let through with
\* the configured amount in the context.
C18_Witness ==
  /\ VerifiedAndEnded(1)
  /\ ParseInt(PayloadOf(1).value).n > FloorSmallestUnit(req[1].amount)
  /\ context[1].verified
  /\ context[1].amount = PricingStandard

\* Every local check passed for request r (the facilitator was called) and
\* the facilitator answered with a success response that carries a
\* transaction hash.
FacilitatorSucceeded(r) ==
  /\ facCalls[r] = 1
  /\ facResp[r].kind = "ok"
  /\ facResp[r].parsable
  /\ facResp[r].transactionHash.t = "str"

\* C19: in mandatory mode, when all local checks pass and the facilitator
\* returns a success response with transaction hash h, the gate ends with a
\* context that has verified=true, transactionHash h and the authorization's
\* from address as payer, next invoked exactly once and no response sent.
C19_SuccessAttachesAndContinues ==
  \A r \in Reqs :
    /\ req[r].mode = "mandatory"
    /\ req[r].fault = "none"
    /\ pc[r] = "done"
    /\ FacilitatorSucceeded(r)
    => /\ context[r].attached
       /\ context[r].verified
       /\ context[r].transactionHash = facResp[r].transactionHash
       /\ context[r].payer = PayloadOf(r).from
       /\ nextCalls[r] = 1
       /\ status[r] = 0
       /\ body[r] = NoBody

\* The facilitator answered {transactionHash: "0xabc"} and the request went
\* downstream with that hash in its context.
C19_Witness ==
  /\ req[1].mode = "mandatory"
  /\ pc[1] = "done"
  /\ FacilitatorSucceeded(1)
  /\ context[1].transactionHash = Str(HashAbc)
  /\ context[1].payer = Str(Payer)
  /\ nextCalls[1] = 1

\* C20: every result verifyPayment returns, on any path, is never partially
\* populated: valid=true comes without an error string, valid=false without
\* a transaction identifier.
C20_ResultNeverPartial ==
  \A r \in Reqs :
    Returned(r) =>
      /\ (verification[r].valid => ~verification[r].error.defined)
      /\ (~verification[r].valid => verification[r].transactionHash = Undef)

\* verifyPayment returned valid=true, without an error, for a facilitator
\* success body that holds an error field beside the transaction hash.
C20_Witness ==
  /\ Returned(1)
  /\ facResp[1].kind = "ok"
  /\ facResp[1].error # ""
  /\ verification[1].valid
  /\ ~verification[1].error.defined

\* The facilitator answered the call for request r with a failure response
\* whose body carries an error string.
FacilitatorRejectedWithError(r) ==
  /\ Returned(r)
  /\ facResp[r].kind = "notok"
  /\ facResp[r].parsable
  /\ facResp[r].error # ""

\* C21 as stated: when the facilitator answers with a failure response that
\* carries an error string, verifyPayment returns valid=false with that same
\* string, and the mandatory gate reports it in its 402, in every deployment
\* mode.
C21_FacilitatorErrorSurfaced ==
  \A r \in Reqs :
    FacilitatorRejectedWithError(r) =>
      /\ ~verification[r].valid
      /\ verification[r].error.text = facResp[r].error
      /\ ( req[r].mode = "mandatory" /\ req[r].fault = "none" /\ pc[r] = "done"
            => status[r] = 402 /\ body[r].message.text = facResp[r].error )

\* The error verifyWithFacilitator returns when the facilitator cannot be
\* reached: the class "facilitator unavailable".
FacilitatorUnavailable == "Failed to communicate with payment facilitator"

RequirementSent(r) ==
  /\ req[r].mode = "mandatory"
  /\ req[r].method = "POST"
  /\ HeaderMissing(req[r].header)
  /\ pc[r] = "done"

\* C23 as stated: for every required decimal amount a, the maxAmountRequired
\* advertised in the payment requirement is the integer floor(a * 10^6),
\* without a fractional part.
C23_AdvertisedAmountIsFloor ==
  \A r \in Reqs :
    RequirementSent(r) =>
      body[r].accepts[1].maxAmountRequired
        = [whole |-> FloorSmallestUnit(req[r].amount), fraction |-> 0]

\* The amount the gate advertises for the configuration of request r, in
\* units of 1/SubUnit of the smallest unit.
AdvertisedAmount(r) ==
  GateRequirement(req[r]).maxAmountRequired.whole * SubUnit
    + GateRequirement(req[r]).maxAmountRequired.fraction

\* C24 as stated: the threshold verifyPayment enforces is the amount the gate
\* advertises for the same configuration: an integer value passes the amount
\* check exactly when it is at least the advertised maxAmountRequired, and
\* the required amount reported on rejection is the advertised one.
C24_ThresholdIsAdvertised ==
  \A r \in Reqs :
    AmountChecked(r) /\ IsIntegerString(PayloadOf(r).value) =>
      /\ verification[r].error.text # "Insufficient payment"
           <=> ParseInt(PayloadOf(r).value).n * SubUnit >= AdvertisedAmount(r)
      /\ verification[r].error.text = "Insufficient payment"
           => verification[r].error.required * SubUnit = AdvertisedAmount(r)

\* C25: the confirmation header X-Payment-Response is set only on the success
\* path of mandatory mode (verification valid, no response sent, next invoked
\* once) and then carries the verification's transactionHash, the configured
\* network and the configured amount; it is never set on a response that
\* rejects the request.
C25_ConfirmationOnlyOnSuccess ==
  \A r \in Reqs :
    /\ payResponse[r].set =>
         /\ req[r].mode = "mandatory"
         /\ req[r].method = "POST"
         /\ pc[r] = "done"
         /\ verification[r].valid
         /\ context[r].verified
         /\ status[r] = 0
         /\ nextCalls[r] = 1
         /\ payResponse[r].transactionHash = verification[r].transactionHash
         /\ payResponse[r].network = NetworkName
         /\ payResponse[r].amount = req[r].amount
    /\ status[r] \in {400, 402, 500} => payResponse[r] = NoPayResponse

\* A mandatory request went downstream with the confirmation header set to the
\* facilitator's hash and the configured amount, while another request was
\* rejected without one.
C25_Witness ==
  /\ payResponse[1].set
  /\ payResponse[1].transactionHash = Str(HashAbc)
  /\ payResponse[1].amount = req[1].amount
  /\ status[1] = 0
  /\ status[2] = 402
  /\ verifyArgs[2].called
  /\ ~payResponse[2].set

\* C26: on a route that ends in executeHandler, the handler runs only after
\* the gate called next, reads the payment from the attached context without
\* another verification (no facilitator call beyond the gate's one), and the
\* sandbox is executed only for a request whose context has verified=true,
\* which the gate attaches only to a valid verification; a request that
\* reaches the handler without a verified context is answered with an error
\* (400 or 500) and nothing is executed.
C26_ExecutedOnlyWhenVerified ==
  \A r \in Reqs :
    /\ handler[r].called =>
         /\ pc[r] = "done"
         /\ nextCalls[r] = 1
         /\ facCalls[r] <= 1
         /\ verifyArgs[r].called => verifyArgs[r].payload = PayloadOf(r)
    /\ handler[r].executed =>
         /\ context[r].attached
         /\ context[r].verified
         /\ verification[r].valid
         /\ facCalls[r] = 1
         /\ handler[r].status = 200 =>
              /\ handler[r].payment.amount = context[r].amount
              /\ handler[r].payment.payer = context[r].payer
              /\ handler[r].payment.transactionHash = context[r].transactionHash
    /\ handler[r].called /\ ~(context[r].attached /\ context[r].verified) =>
         /\ ~handler[r].executed
         /\ handler[r].status \in {400, 500}
         /\ handler[r].error \in {"Invalid Request", "Internal Server Error"}
    /\ (req[r].mode = "mandatory" /\ req[r].method = "POST" /\ handler[r].called)
         => context[r].verified

\* A paid POST was executed and answered with the payment of its context.
C26_Witness ==
  /\ req[1].mode = "mandatory"
  /\ req[1].method = "POST"
  /\ handler[1].executed
  /\ handler[1].status = 200
  /\ handler[1].payment.transactionHash = Str(HashAbc)
  /\ handler[1].payment.payer = Str(Payer)

\* A request reached the handler with a valid body and without a verified
\* context: it was answered 500 and nothing was executed.
C26_WitnessUnverified ==
  /\ handler[1].called
  /\ ~context[1].verified
  /\ handler[1].status = 500
  /\ ~handler[1].executed

\* The scheme of the requirement the gate advertises for request in, as the
\* value an authorization built from it carries.
AdvertisedScheme(in) ==
  IF GateRequirement(in).scheme = "exact" THEN Str(<<"e", "x", "a", "c", "t">>)
  ELSE IF GateRequirement(in).scheme = "eip3009" THEN Str(SchemeEip3009)
  ELSE Undef

\* C27 as stated: the scheme the gate advertises in its 402 is the scheme
\* verifyPayment accepts: an authorization carrying the advertised scheme is
\* never rejected by the scheme check.
C27_AdvertisedSchemeAccepted ==
  \A r \in Reqs :
    /\ Returned(r)
    /\ PayloadOf(r).scheme = AdvertisedScheme(req[r])
    => /\ SchemeOk(PayloadOf(r))
       /\ verification[r].error # Error("Unsupported payment scheme")

\* C28: the mandatory gate only handles POST: for a request whose method is
\* not POST, whatever its header, requirePayment invokes next at once (it is
\* never suspended) and leaves everything else as it was: the header is not
\* parsed, verifyPayment is not called, no facilitator call is made, no
\* response is written, no confirmation header is set and no payment context
\* is attached.
C28_NonPostPassesThrough ==
  \A r \in Reqs :
    req[r].mode = "mandatory" /\ req[r].method # "POST" =>
      /\ pc[r] \in {"gate", "done"}
      /\ pc[r] = "done" => nextCalls[r] = 1
      /\ pc[r] = "gate" => nextCalls[r] = 0
      /\ status[r] = 0
      /\ body[r] = NoBody
      /\ payResponse[r] = NoPayResponse
      /\ context[r] = NoContext
      /\ parsed[r] = NoParse
      /\ verifyArgs[r] = NoArgs
      /\ nowRead[r] = -1
      /\ facCalls[r] = 0
      /\ facResp[r] = NoResponse
      /\ verification[r] = NoVerification

\* A GET carrying a well-formed authorization went downstream untouched while
\* a POST was waiting for the facilitator, and a GET without the header did
\* the same (C28_WitnessNoHeader).
C28_Witness ==
  /\ req[1].mode = "mandatory"
  /\ req[1].method = "GET"
  /\ req[1].header = Header("json", BasePayload)
  /\ pc[1] = "done"
  /\ nextCalls[1] = 1
  /\ pc[2] = "awaitFetch"

C28_WitnessNoHeader ==
  /\ req[1].mode = "mandatory"
  /\ req[1].method = "GET"
  /\ HeaderMissing(req[1].header)
  /\ pc[1] = "done"
  /\ nextCalls[1] = 1

\* The facilitator was consulted for request r and verifyPayment has returned.
FacilitatorConsulted(r) == Returned(r) /\ facCalls[r] = 1 /\ facResp[r] # NoResponse

SimulatedHash(nonce) ==
  [i \in 1..(2 + (IF Len(nonce) > 64 THEN Len(nonce) ELSE 64)) |->
     IF i = 1 THEN "0"
     ELSE IF i = 2 THEN "x"
     ELSE IF i - 2 <= Len(nonce) THEN nonce[i - 2]
     ELSE "0"]

\* In development, verifyPayment has returned for request r after its call
\* of the facilitator failed.
SimulatedFor(r) ==
  /\ nodeEnv = "development"
  /\ FacilitatorConsulted(r)
  /\ FacilitatorCallFailed(facResp[r])
  /\ verifyArgs[r].payload.nonce.t = "str"

\* C30: the simulated success of development mode is a function of the nonce
\* alone: every run with a failed facilitator call returns valid=true with
\* "0x" followed by the nonce padded with '0' to 64 characters, so two runs
\* with the same nonce return the same identifier whatever their other
\* fields, their gate, the way the call failed or the order they ran in.
C30_SimulatedHashIsFunctionOfNonce ==
  /\ \A r \in Reqs :
       SimulatedFor(r) =>
         /\ verification[r].valid
         /\ verification[r].transactionHash
              = Str(SimulatedHash(verifyArgs[r].payload.nonce.s))
  /\ \A r, q \in Reqs :
       /\ SimulatedFor(r)
       /\ SimulatedFor(q)
       /\ verifyArgs[r].payload.nonce = verifyArgs[q].payload.nonce
       => verification[r] = verification[q]

\* Two runs with the same nonce, different recipient spellings, behind
\* different gates and after different failures of the call, both got the
\* simulated hash of the nonce.
C30_Witness ==
  /\ SimulatedFor(1)
  /\ SimulatedFor(2)
  /\ verifyArgs[1].payload.nonce = verifyArgs[2].payload.nonce
  /\ verifyArgs[1].payload.to # verifyArgs[2].payload.to
  /\ req[1].mode # req[2].mode
  /\ facResp[1] # facResp[2]
  /\ verification[1].valid
  /\ verification[1].transactionHash = verification[2].transactionHash
  /\ Len(verification[1].transactionHash.s) = 66

\* C31 as stated: outside development, whenever verifyPayment returns
\* valid=true the result carries a transaction identifier supplied by the
\* facilitator's success response, and a success-status response without a
\* transactionHash never produces a verified payment context.
C31_ValidCarriesFacilitatorHash ==
  \A r \in Reqs :
    nodeEnv # "development" /\ Returned(r) =>
      /\ verification[r].valid =>
           /\ facResp[r].kind = "ok"
           /\ Truthy(facResp[r].transactionHash)
           /\ verification[r].transactionHash = facResp[r].transactionHash
      /\ (facResp[r].kind = "ok" /\ ~Truthy(facResp[r].transactionHash))
           => ~(context[r].attached /\ context[r].verified)

\* verifyPayment was called for request r with an authorization that passes
\* the scheme and recipient checks, so that its amount check is reached.
AmountCheckReached(r) ==
  /\ verifyArgs[r].called
  /\ SchemeOk(PayloadOf(r))
  /\ RecipientOk(PayloadOf(r))

\* C32 as stated: an authorization whose value does not parse as an integer
\* (parseInt gives NaN) never passes the amount check of verifyPayment and
\* never reaches the facilitator call.
C32_NaNValueRejected ==
  \A r \in Reqs :
    AmountCheckReached(r) /\ ParseInt(PayloadOf(r).value).nan =>
      /\ facCalls[r] = 0
      /\ Returned(r) => ~verification[r].valid

\* verifyPayment was called for request r with an authorization that passes
\* the scheme, recipient and amount checks, so that its window check is
\* reached.
WindowCheckReached(r) ==
  /\ AmountCheckReached(r)
  /\ AmountOk(PayloadOf(r), req[r].amount)

\* C33 as stated: an authorization whose validAfter or validBefore does not
\* parse as an integer (parseInt gives NaN) never passes the time-window
\* check of verifyPayment and never reaches the facilitator call.
C33_NaNWindowRejected ==
  \A r \in Reqs :
    /\ WindowCheckReached(r)
    /\ ParseInt(PayloadOf(r).validAfter).nan \/ ParseInt(PayloadOf(r).validBefore).nan
    => /\ facCalls[r] = 0
       /\ Returned(r) => ~verification[r].valid

\* The header deserializes to an object that holds all eight fields.
AllFieldsPresent(header) ==
  header.kind = "json" /\ \A f \in Fields : header.obj[f] # Undef

\* C34 as stated: parsePaymentHeader rejects only for absence: every header
\* that deserializes to an object in which all eight mandatory fields are
\* present is returned as the authorization it holds, whatever the values of
\* the fields are (an empty string or a numeric 0 included).
C34_RejectsOnlyAbsence ==
  \A r \in Reqs :
    parsed[r].called /\ AllFieldsPresent(req[r].header) =>
      /\ parsed[r].result # Null
      /\ parsed[r].result.payload = req[r].header.obj
      /\ status[r] # 400

\* The upper-case and lower-case forms of the letters of an address.
CasePairs ==
  { <<"A", "a">>, <<"B", "b">>, <<"C", "c">>, <<"D", "d">>, <<"E", "e">>,
    <<"F", "f">>, <<"X", "x">> }

\* a and b are the same text up to the case of their letters.
SameUpToCase(a, b) ==
  /\ Len(a) = Len(b)
  /\ \A i \in 1..Len(a) :
       \/ a[i] = b[i]
       \/ <<a[i], b[i]>> \in CasePairs
       \/ <<b[i], a[i]>> \in CasePairs

\* verifyPayment was called for request r and went past its recipient check.
RecipientPassed(r) ==
  /\ verifyArgs[r].called
  /\ \/ pc[r] \in {"awaitFetch", "fetchSettled"}
     \/ /\ Returned(r)
        /\ verification[r].error # Error("Unsupported payment scheme")
        /\ verification[r].error # Error("Invalid recipient address")
        /\ verification[r].error # Error("payload.to.toLowerCase is not a function")

\* C35: the recipient check of verifyPayment is case-insensitive: for every
\* authorization that reaches it, the check passes exactly when the
\* authorization's to address is the configured receiving address up to the
\* case of its letters, so two authorizations that differ only in the case
\* of to get the same verdict; a to that differs is answered 'Invalid
\* recipient address'.
C35_RecipientCaseInsensitive ==
  \A r \in Reqs :
    verifyArgs[r].called /\ SchemeOk(PayloadOf(r)) =>
      /\ RecipientPassed(r)
           <=> /\ PayloadOf(r).to.t = "str"
               /\ SameUpToCase(PayloadOf(r).to.s, WalletBase)
      /\ (Returned(r) /\ PayloadOf(r).to.t = "str"
             /\ ~SameUpToCase(PayloadOf(r).to.s, WalletBase))
           => verification[r].error = Error("Invalid recipient address")

\* An authorization whose to is the configured address in another case
\* ("0XaB" for "0xAb") was verified and went downstream.
C35_Witness ==
  /\ PayloadOf(1).to = Str(<<"0", "X", "a", "B">>)
  /\ Str(WalletBase) # PayloadOf(1).to
  /\ RecipientPassed(1)
  /\ pc[1] = "done"
  /\ verification[1].valid
  /\ context[1].verified

\* The statuses of the responses requirePayment sends.
GateStatuses == {400, 402, 500}

\* C36: every request handled by the mandatory gate ends in exactly one
\* terminal outcome: either one response is sent (402 requirement, 400, 402
\* rejection or 500) and next is not invoked, or next is invoked exactly once
\* and no response is sent; never both, and nothing of either before the
\* gate has ended.  For a POST the verified context is attached by the time
\* next is invoked.
C36_ExactlyOneTerminalOutcome ==
  \A r \in Reqs :
    req[r].mode = "mandatory" =>
      /\ nextCalls[r] \in {0, 1}
      /\ status[r] \in GateStatuses \cup {0}
      /\ ~(status[r] # 0 /\ nextCalls[r] # 0)
      /\ pc[r] # "done" =>
           /\ status[r] = 0
           /\ nextCalls[r] = 0
           /\ body[r] = NoBody
           /\ ~context[r].attached
      /\ pc[r] = "done" =>
           /\ (status[r] \in GateStatuses) # (nextCalls[r] = 1)
           /\ status[r] \in GateStatuses => body[r] # NoBody /\ ~context[r].attached
           /\ nextCalls[r] = 1 => body[r] = NoBody
      /\ (nextCalls[r] = 1 /\ req[r].method = "POST") =>
           /\ context[r].attached
           /\ context[r].verified

\* One mandatory request ended with a response and no downstream call, the
\* other with one downstream call, a verified context and no response.
C36_Witness ==
  /\ req[1].mode = "mandatory"
  /\ req[2].mode = "mandatory"
  /\ pc[1] = "done"
  /\ pc[2] = "done"
  /\ status[1] = 402
  /\ nextCalls[1] = 0
  /\ status[2] = 0
  /\ nextCalls[2] = 1
  /\ req[2].method = "POST"
  /\ context[2].verified

====
